---- MODULE Spec2Model ----
(***************************************************************************)
(* Secure channel of the microgrid controller: ECCmanager (key pair, ECDH, *)
(* AES-256-CBC envelope, ECDSA statements, secure message) and KeyManager  *)
(* (shared secrets with lazy expiry).                                      *)
(*                                                                         *)
(* Python values are modelled as follows.                                  *)
(*   bytes            a sequence of numbers 0..255                         *)
(*   str              a sequence of Unicode code points                    *)
(*   base64 text      a sequence of base64 symbols 0..63, 64 being '='     *)
(*   an optional      <<>> for None, <<v>> for the value v                 *)
(*   a call's outcome [ok |-> TRUE, val |-> v] when it returns v,          *)
(*                    [ok |-> FALSE, val |-> <<>>] when it raises          *)
(* The primitives of the `cryptography` package are outside the            *)
(* repository. They are modelled by small functions that keep the algebra  *)
(* the code relies on: AES is a keyed bijection on 16-byte blocks, ECDH    *)
(* is Diffie-Hellman in a small cyclic group, SHA-256 is a 32-byte digest  *)
(* and an ECDSA signature binds the digest of the data to the public key.  *)
(***************************************************************************)
EXTENDS Integers, Sequences, FiniteSets, TLC

\* ------------------------------------------------------------ bounds
\* Longest plaintext (in characters) the checks draw.
MaxLen == 33
\* Last instant of the clock.
MaxTime == 3
\* Number of shared points whose derived secrets the cipher checks draw.
MaxSecret == 24
\* Private keys are drawn from 1..MaxKey.
MaxKey == 2

\* ------------------------------------------------- program constants
\* AES block size in bytes: the 16 of the padding rule and of the IV.
BlockSize == 16
\* Length of the derived secret: HKDF(..., length=32).
SecretLen == 32
\* expires_in_hours=24, in clock ticks (one tick is one hour).
DefaultTtl == 24
\* hexdigest()[:16]
MessageIdLen == 16

\* ------------------------------------------------------ Python values
None == <<>>
Some(v) == <<v>>
Returns(v) == [ok |-> TRUE, val |-> v]
Raises == [ok |-> FALSE, val |-> <<>>]

Byte == 0..255

RECURSIVE BitXor(_, _)
BitXor(a, b) ==
    IF a = 0 THEN b
    ELSE IF b = 0 THEN a
    ELSE (((a % 2) + (b % 2)) % 2) + 2 * BitXor(a \div 2, b \div 2)

XorBytes(x, y) == [i \in 1..Len(x) |-> BitXor(x[i], y[i])]

Repeat(v, n) == [i \in 1..n |-> v]

\* str.encode('utf-8') of one code point
EncodeChar(c) ==
    IF c < 128 THEN <<c>>
    ELSE IF c < 2048 THEN <<192 + (c \div 64), 128 + (c % 64)>>
    ELSE IF c < 65536
         THEN <<224 + (c \div 4096), 128 + ((c \div 64) % 64), 128 + (c % 64)>>
    ELSE <<240 + (c \div 262144), 128 + ((c \div 4096) % 64),
           128 + ((c \div 64) % 64), 128 + (c % 64)>>

RECURSIVE Utf8Encode(_)
Utf8Encode(s) ==
    IF s = <<>> THEN <<>> ELSE EncodeChar(Head(s)) \o Utf8Encode(Tail(s))

IsCont(b) == b >= 128 /\ b <= 191

\* Number of bytes of the well-formed UTF-8 sequence that starts b, 0 if none
\* does (strict decoding: no overlong forms, no surrogates, at most U+10FFFF).
Utf8Width(b) ==
    IF b = <<>> THEN 0
    ELSE IF b[1] < 128 THEN 1
    ELSE IF b[1] >= 194 /\ b[1] <= 223
         THEN IF Len(b) >= 2 /\ IsCont(b[2]) THEN 2 ELSE 0
    ELSE IF b[1] >= 224 /\ b[1] <= 239
         THEN IF /\ Len(b) >= 3
                 /\ IsCont(b[2])
                 /\ IsCont(b[3])
                 /\ (b[1] = 224 => b[2] >= 160)
                 /\ (b[1] = 237 => b[2] <= 159)
              THEN 3 ELSE 0
    ELSE IF b[1] >= 240 /\ b[1] <= 244
         THEN IF /\ Len(b) >= 4
                 /\ IsCont(b[2])
                 /\ IsCont(b[3])
                 /\ IsCont(b[4])
                 /\ (b[1] = 240 => b[2] >= 144)
                 /\ (b[1] = 244 => b[2] <= 143)
              THEN 4 ELSE 0
    ELSE 0

DecodeChar(b, w) ==
    IF w = 1 THEN b[1]
    ELSE IF w = 2 THEN (b[1] - 192) * 64 + (b[2] - 128)
    ELSE IF w = 3 THEN (b[1] - 224) * 4096 + (b[2] - 128) * 64 + (b[3] - 128)
    ELSE (b[1] - 240) * 262144 + (b[2] - 128) * 4096
         + (b[3] - 128) * 64 + (b[4] - 128)

RECURSIVE Utf8Valid(_)
Utf8Valid(b) ==
    \/ b = <<>>
    \/ /\ Utf8Width(b) > 0
       /\ Utf8Valid(SubSeq(b, Utf8Width(b) + 1, Len(b)))

RECURSIVE Utf8Chars(_)
Utf8Chars(b) ==
    IF b = <<>> THEN <<>>
    ELSE <<DecodeChar(b, Utf8Width(b))>>
         \o Utf8Chars(SubSeq(b, Utf8Width(b) + 1, Len(b)))

\* bytes.decode('utf-8'): the string, or UnicodeDecodeError
Utf8Decode(b) == IF Utf8Valid(b) THEN Returns(Utf8Chars(b)) ELSE Raises

\* base64.b64encode: three bytes make four symbols, the tail is padded with '='
B64Pad == 64

RECURSIVE B64Encode(_)
B64Encode(b) ==
    IF b = <<>> THEN <<>>
    ELSE IF Len(b) = 1
         THEN <<b[1] \div 4, (b[1] % 4) * 16, B64Pad, B64Pad>>
    ELSE IF Len(b) = 2
         THEN <<b[1] \div 4, (b[1] % 4) * 16 + (b[2] \div 16),
                (b[2] % 16) * 4, B64Pad>>
    ELSE <<b[1] \div 4, (b[1] % 4) * 16 + (b[2] \div 16),
           (b[2] % 16) * 4 + (b[3] \div 64), b[3] % 64>>
         \o B64Encode(SubSeq(b, 4, Len(b)))

B64Quad(q) ==
    IF q[3] = B64Pad THEN <<q[1] * 4 + (q[2] \div 16)>>
    ELSE IF q[4] = B64Pad
         THEN <<q[1] * 4 + (q[2] \div 16), (q[2] % 16) * 16 + (q[3] \div 4)>>
    ELSE <<q[1] * 4 + (q[2] \div 16), (q[2] % 16) * 16 + (q[3] \div 4),
           (q[3] % 4) * 64 + q[4]>>

RECURSIVE B64Bytes(_)
B64Bytes(t) ==
    IF t = <<>> THEN <<>>
    ELSE B64Quad(SubSeq(t, 1, 4)) \o B64Bytes(SubSeq(t, 5, Len(t)))

\* Padding may only end the text: "x=", "xx=" or none in the last quad.
B64WellFormed(t) ==
    /\ Len(t) % 4 = 0
    /\ \A i \in 1..Len(t) :
          /\ t[i] \in 0..B64Pad
          /\ (t[i] = B64Pad =>
                /\ i >= Len(t) - 1
                /\ (i = Len(t) - 1 => t[Len(t)] = B64Pad))

\* base64.b64decode: the bytes, or binascii.Error
B64Decode(t) == IF B64WellFormed(t) THEN Returns(B64Bytes(t)) ELSE Raises

\* ------------------------------------------- primitives of the library
\* hashes.SHA256 / hashlib.sha256: a 32-byte digest of the bytes, every byte
\* of the input and its length mixed into each of the 32 lanes.
DigestLen == 32

\* A bijection of the bytes that is not linear: the cube in the field of 257
\* elements.
SBox(x) == (((x + 1) * (x + 1) * (x + 1)) % 257) - 1

Sha256Absorb(h, b) ==
    [j \in 1..DigestLen |->
        SBox((h[j] + 2 * h[(j % DigestLen) + 1] + b + j) % 256)] \o <<>>

RECURSIVE Sha256Fold(_, _)
Sha256Fold(h, data) ==
    IF data = <<>> THEN h
    ELSE LET next == Sha256Absorb(h, Head(data))
         IN  IF Len(next) = DigestLen THEN Sha256Fold(next, Tail(data)) ELSE <<>>

\* The bytes are absorbed one by one, their number last.
Sha256(data) ==
    Sha256Fold([j \in 1..DigestLen |-> (7 * j) % 256] \o <<>>,
               data \o <<Len(data) % 256>>)

\* '0'..'9' are 48..57 and 'a'..'f' are 97..102
HexChar(n) == IF n < 10 THEN 48 + n ELSE 87 + n

\* hexdigest(): two lowercase hex characters a byte
RECURSIVE HexDigest(_)
HexDigest(b) ==
    IF b = <<>> THEN <<>>
    ELSE <<HexChar(Head(b) \div 16), HexChar(Head(b) % 16)>> \o HexDigest(Tail(b))

\* The curve's group, reduced to the multiplicative group modulo a small
\* prime: a private key is an exponent, its public key the generator raised
\* to it.
CurveP == 251
CurveG == 6
NoKey == 0

RECURSIVE ModExp(_, _)
ModExp(b, e) ==
    IF e = 0 THEN 1
    ELSE IF e % 2 = 0 THEN ModExp((b * b) % CurveP, e \div 2)
    ELSE (b * ModExp(b, e - 1)) % CurveP

\* private_key.public_key()
PublicKeyOf(sk) == ModExp(CurveG, sk)

\* private_key.exchange(ec.ECDH(), peer_public_key): the shared point as bytes
Exchange(sk, pk) == <<ModExp(pk, sk)>>

\* HKDF(SHA256, length=32, salt=None, info).derive(key)
Hkdf(key, info) == SubSeq(Sha256(Sha256(key) \o info \o <<1>>), 1, SecretLen)

\* private_key.sign(data, ec.ECDSA(hashes.SHA256())): the nonce k makes two
\* signatures of the same data differ; the rest binds the digest of the data
\* to the signer's public key.
EcdsaSign(sk, data, k) ==
    <<k>> \o [j \in 1..DigestLen |-> (Sha256(data)[j] + PublicKeyOf(sk) * j) % 256]

\* public_key.verify(signature, data, ec.ECDSA(hashes.SHA256())): TRUE when
\* it returns, FALSE when it raises InvalidSignature
EcdsaVerify(pk, signature, data) ==
    /\ Len(signature) = DigestLen + 1
    /\ \A j \in 1..DigestLen :
          signature[j + 1] = (Sha256(data)[j] + pk * j) % 256

\* algorithms.AES(key) accepts keys of 128, 192 and 256 bits
AesKeySizes == {16, 24, 32}

\* The key schedule: the key material that acts on the 16 bytes of a block.
\* Every byte of it depends on every byte of the key.
KeySchedule(key) == SubSeq(Sha256(key), 1, BlockSize)

\* AES on one block under the schedule rk: for every key a bijection of the
\* 16-byte blocks, undone by AesDecryptBlock under the same key only.
AesEncryptBlock(rk, blk) ==
    [i \in 1..BlockSize |-> (blk[(i % BlockSize) + 1] + rk[i]) % 256]

AesDecryptBlock(rk, blk) ==
    [m \in 1..BlockSize |->
        LET i == ((m + BlockSize - 2) % BlockSize) + 1
        IN  (blk[i] + 256 - rk[i]) % 256]

\* modes.CBC: each plaintext block is xored with the previous ciphertext
\* block (the IV for the first) before the block cipher.
RECURSIVE CbcEncrypt(_, _, _)
CbcEncrypt(rk, prev, data) ==
    IF data = <<>> THEN <<>>
    ELSE LET c == AesEncryptBlock(rk, XorBytes(SubSeq(data, 1, BlockSize), prev))
         IN  c \o CbcEncrypt(rk, c, SubSeq(data, BlockSize + 1, Len(data)))

RECURSIVE CbcDecrypt(_, _, _)
CbcDecrypt(rk, prev, data) ==
    IF data = <<>> THEN <<>>
    ELSE LET c == SubSeq(data, 1, BlockSize)
         IN  XorBytes(AesDecryptBlock(rk, c), prev)
             \o CbcDecrypt(rk, c, SubSeq(data, BlockSize + 1, Len(data)))

\* Cipher(algorithms.AES(key), modes.CBC(iv)): TypeError for a key that is
\* no bytes (None), ValueError for a key or an IV of the wrong size.
CipherOk(key, iv) ==
    /\ key # None
    /\ Len(key[1]) \in AesKeySizes
    /\ Len(iv) = BlockSize

\* encryptor.update(data) + encryptor.finalize(): ValueError when the data is
\* no whole number of blocks
CipherEncrypt(key, iv, data) ==
    IF CipherOk(key, iv) /\ Len(data) % BlockSize = 0
    THEN Returns(CbcEncrypt(KeySchedule(key[1]), iv, data))
    ELSE Raises

\* decryptor.update(data) + decryptor.finalize()
CipherDecrypt(key, iv, data) ==
    IF CipherOk(key, iv) /\ Len(data) % BlockSize = 0
    THEN Returns(CbcDecrypt(KeySchedule(key[1]), iv, data))
    ELSE Raises

\* datetime.isoformat() of the instant t, as text: two decimal digits
IsoFormat(t) == <<48 + (t \div 10), 48 + (t % 10)>>

IsDigit(c) == c >= 48 /\ c <= 57

\* datetime.fromisoformat(text): the instant, or ValueError
FromIsoFormat(text) ==
    IF Len(text) = 2 /\ IsDigit(text[1]) /\ IsDigit(text[2])
    THEN Returns((text[1] - 48) * 10 + (text[2] - 48))
    ELSE Raises

\* ------------------------------------------------------------ ECCmanager
\* self.node_id or 'unknown'
NodeIdOrUnknown(nid) == IF nid = None \/ nid = Some("") THEN "unknown" ELSE nid[1]

\* public_key.public_bytes(PEM, SubjectPublicKeyInfo): the base64 body of the
\* key's bytes between the BEGIN and END lines, written here as one '-' each.
PublicBytes(pk) == <<45>> \o B64Encode(<<pk>>) \o <<45>>

\* get_public_key_pem() of a manager whose public key is pk
get_public_key_pem(pk) ==
    IF pk = NoKey THEN Raises ELSE Returns(PublicBytes(pk))

\* perform_ecdh with the bug of not looking whether there is a private key.
perform_ecdh_NoKeyCheck(sk, peer_public_key, info) ==
    IF peer_public_key = NoKey THEN Raises
    ELSE Returns(Hkdf(Exchange(sk, peer_public_key), info))

\* perform_ecdh with the bug of mixing the node's own public key into the
\* derivation context.
perform_ecdh_OwnKeyInInfo(sk, peer_public_key, info) ==
    IF sk = NoKey THEN Raises
    ELSE IF peer_public_key = NoKey THEN Raises
    ELSE Returns(Hkdf(Exchange(sk, peer_public_key), info \o <<PublicKeyOf(sk)>>))

\* perform_ecdh(peer_public_key, info) of a manager whose private key is sk
perform_ecdh(sk, peer_public_key, info) ==
    IF sk = NoKey THEN Raises
    ELSE IF peer_public_key = NoKey THEN Raises
    ELSE Returns(Hkdf(Exchange(sk, peer_public_key), info))

\* PadMessage with the bug of filling the padding with zero bytes.
PadMessage_ZeroBytes(message_bytes) ==
    LET padding_length == BlockSize - (Len(message_bytes) % BlockSize)
    IN  message_bytes \o Repeat(0, padding_length)

\* PadMessage with the bug of padding only up to the next block boundary: no
\* block is added to a plaintext that already fills its blocks.
PadMessage_NoFullBlock(message_bytes) ==
    LET padding_length == (BlockSize - (Len(message_bytes) % BlockSize)) % BlockSize
    IN  message_bytes \o Repeat(padding_length, padding_length)

\* padding_length = 16 - (len(message_bytes) % 16), then that many bytes of
\* that value
PadMessage(message_bytes) ==
    LET padding_length == BlockSize - (Len(message_bytes) % BlockSize)
    IN  message_bytes \o Repeat(padding_length, padding_length)

\* encrypt_message(message, shared_secret) of a manager whose node_id is nid,
\* with iv the value of os.urandom(16) and t the clock's reading
encrypt_message(nid, message, shared_secret, iv, t) ==
    LET message_bytes == Utf8Encode(message)
        ciphertext == CipherEncrypt(shared_secret, iv, PadMessage(message_bytes))
    IN  IF ~ciphertext.ok THEN Raises
        ELSE Returns([ciphertext |-> B64Encode(ciphertext.val),
                      iv |-> B64Encode(iv),
                      timestamp |-> IsoFormat(t),
                      algorithm |-> "AES-256-CBC",
                      sender |-> NodeIdOrUnknown(nid)])

\* StripPadding with the bug of leaving the first padding byte in place.
StripPadding_OffByOne(padded_message, padding_length) ==
    SubSeq(padded_message, 1, Len(padded_message) - padding_length + 1)

\* padded_message[:-padding_length]: Python's slice keeps nothing for -0
StripPadding(padded_message, padding_length) ==
    IF padding_length = 0 THEN <<>>
    ELSE SubSeq(padded_message, 1, Len(padded_message) - padding_length)

\* decrypt_message(encrypted_data, shared_secret)
decrypt_message(encrypted_data, shared_secret) ==
    LET ciphertext == B64Decode(encrypted_data.ciphertext)
        iv == B64Decode(encrypted_data.iv)
    IN  IF ~ciphertext.ok \/ ~iv.ok THEN Raises
        ELSE LET padded_message == CipherDecrypt(shared_secret, iv.val, ciphertext.val)
             IN  IF ~padded_message.ok THEN Raises
                 ELSE IF padded_message.val = <<>> THEN Raises
                 ELSE LET padding_length == padded_message.val[Len(padded_message.val)]
                      IN  IF padding_length > BlockSize THEN Raises
                          ELSE Utf8Decode(StripPadding(padded_message.val,
                                                       padding_length))

\* f"{message}:{timestamp}" when there is a timestamp, the message alone
\* otherwise (':' is 58)
MessageToSign(message, timestamp) ==
    IF timestamp # None /\ timestamp # Some(<<>>)
    THEN message \o <<58>> \o timestamp[1]
    ELSE message

\* sign_message(message, include_timestamp) of a manager with private key sk
\* and node_id nid, at the clock's reading t, with the ECDSA nonce k
sign_message(sk, nid, message, include_timestamp, t, k) ==
    IF sk = NoKey THEN Raises
    ELSE LET timestamp == IF include_timestamp THEN Some(IsoFormat(t)) ELSE None
             signature == EcdsaSign(sk, Utf8Encode(MessageToSign(message, timestamp)), k)
         IN  Returns([signature |-> B64Encode(signature),
                      message |-> message,
                      timestamp |-> timestamp,
                      signer |-> NodeIdOrUnknown(nid),
                      algorithm |-> "ECDSA-SHA256"])

\* verify_signature with the bug of verifying the message alone, the timestamp
\* left out of the reconstructed string.
verify_signature_IgnoresTimestamp(signature_data, public_key) ==
    IF ~({"signature", "message"} \subseteq DOMAIN signature_data) THEN FALSE
    ELSE LET signature == B64Decode(signature_data.signature)
         IN  /\ signature.ok
             /\ public_key # NoKey
             /\ EcdsaVerify(public_key, signature.val,
                            Utf8Encode(signature_data.message))

\* verify_signature(signature_data, public_key): every exception ends in False
verify_signature(signature_data, public_key) ==
    IF ~({"signature", "message"} \subseteq DOMAIN signature_data) THEN FALSE
    ELSE LET signature == B64Decode(signature_data.signature)
             timestamp == IF "timestamp" \in DOMAIN signature_data
                          THEN signature_data.timestamp ELSE None
             message_to_verify == MessageToSign(signature_data.message, timestamp)
         IN  /\ signature.ok
             /\ public_key # NoKey
             /\ EcdsaVerify(public_key, signature.val, Utf8Encode(message_to_verify))

\* hashlib.sha256(message.encode()).hexdigest()[:16]
MessageId(message) == SubSeq(HexDigest(Sha256(Utf8Encode(message))), 1, MessageIdLen)

\* create_secure_message with the bug of hashing created_at into message_id.
create_secure_message_IdWithTime(sk, nid, message, shared_secret, sign, iv, t1, t2, t3, k) ==
    LET encrypted_data == encrypt_message(nid, message, shared_secret, iv, t1)
        secure_message_ == [encrypted_data |-> encrypted_data.val,
                            message_id |-> MessageId(message \o IsoFormat(t2)),
                            sender_node |-> NodeIdOrUnknown(nid),
                            created_at |-> IsoFormat(t2)]
    IN  IF ~encrypted_data.ok THEN Raises
        ELSE IF sign /\ sk # NoKey
             THEN Returns([signature |-> sign_message(sk, nid, message, TRUE, t3, k).val]
                          @@ secure_message_)
        ELSE Returns(secure_message_)

\* create_secure_message(message, shared_secret, sign) of a manager with
\* private key sk and node_id nid; t1, t2, t3 are the clock's readings in
\* encrypt_message, for created_at and in sign_message
create_secure_message(sk, nid, message, shared_secret, sign, iv, t1, t2, t3, k) ==
    LET encrypted_data == encrypt_message(nid, message, shared_secret, iv, t1)
        secure_message == [encrypted_data |-> encrypted_data.val,
                           message_id |-> MessageId(message),
                           sender_node |-> NodeIdOrUnknown(nid),
                           created_at |-> IsoFormat(t2)]
    IN  IF ~encrypted_data.ok THEN Raises
        ELSE IF sign /\ sk # NoKey
             THEN Returns([signature |-> sign_message(sk, nid, message, TRUE, t3, k).val]
                          @@ secure_message)
        ELSE Returns(secure_message)

\* process_secure_message with the bug of raising when the signature does
\* not verify.
process_secure_message_RaisesOnInvalid(secure_message, shared_secret, sender_public_key) ==
    LET decrypted_message == decrypt_message(secure_message.encrypted_data,
                                             shared_secret)
        attempted == "signature" \in DOMAIN secure_message
                     /\ sender_public_key # NoKey
        signature_valid ==
            IF attempted
            THEN Some(verify_signature(secure_message.signature, sender_public_key))
            ELSE None
    IN  IF ~decrypted_message.ok THEN Raises
        ELSE IF signature_valid = Some(FALSE) THEN Raises
        ELSE Returns([message |-> decrypted_message.val,
                      sender_node |-> secure_message.sender_node,
                      message_id |-> secure_message.message_id,
                      created_at |-> secure_message.created_at,
                      signature_valid |-> signature_valid])

\* process_secure_message(secure_message, shared_secret, sender_public_key);
\* signature_valid is None, True or False
process_secure_message(secure_message, shared_secret, sender_public_key) ==
    LET decrypted_message == decrypt_message(secure_message.encrypted_data,
                                             shared_secret)
        signature_valid ==
            IF "signature" \in DOMAIN secure_message /\ sender_public_key # NoKey
            THEN Some(verify_signature(secure_message.signature, sender_public_key))
            ELSE None
    IN  IF ~decrypted_message.ok THEN Raises
        ELSE Returns([message |-> decrypted_message.val,
                      sender_node |-> secure_message.sender_node,
                      message_id |-> secure_message.message_id,
                      created_at |-> secure_message.created_at,
                      signature_valid |-> signature_valid])

\* ------------------------------------------------------------ KeyManager
\* store_shared_secret(node_id, shared_secret, expires_in_hours) on the store
\* s: the clock is read for the expiry (t1) and again for created_at (t2).
\* b64encode(None) raises and leaves the store as it was.
store_shared_secret(s, peer, secret, expires_in_hours, t1, t2) ==
    IF secret = None THEN [ok |-> FALSE, store |-> s]
    ELSE LET expiry_time == t1 + expires_in_hours
             secret_data == [secret |-> B64Encode(secret[1]),
                             created_at |-> IsoFormat(t2),
                             expires_at |-> IsoFormat(expiry_time),
                             partner_node |-> peer]
         IN  [ok |-> TRUE,
              store |-> [p \in DOMAIN s \cup {peer} |->
                            IF p = peer THEN secret_data ELSE s[p]]]

\* get_shared_secret with the bug of treating the expiry instant itself as
\* expired (>= for >).
get_shared_secret_AtExpiry(s, peer, t) ==
    IF peer \notin DOMAIN s THEN [store |-> s, ret |-> None]
    ELSE LET expiry_time == FromIsoFormat(s[peer].expires_at)
         IN  IF ~expiry_time.ok THEN [store |-> s, ret |-> None]
             ELSE IF t >= expiry_time.val
                  THEN [store |-> [p \in DOMAIN s \ {peer} |-> s[p]], ret |-> None]
             ELSE [store |-> s, ret |-> Some(B64Decode(s[peer].secret).val)]

\* get_shared_secret with the bug of leaving the expired entry in the store.
get_shared_secret_KeepsEntry(s, peer, t) ==
    IF peer \notin DOMAIN s THEN [store |-> s, ret |-> None]
    ELSE LET expiry_time == FromIsoFormat(s[peer].expires_at)
         IN  IF ~expiry_time.ok THEN [store |-> s, ret |-> None]
             ELSE IF t > expiry_time.val THEN [store |-> s, ret |-> None]
             ELSE [store |-> s, ret |-> Some(B64Decode(s[peer].secret).val)]

\* get_shared_secret with the bug of never looking at the expiry.
get_shared_secret_IgnoresExpiry(s, peer, t) ==
    IF peer \notin DOMAIN s THEN [store |-> s, ret |-> None]
    ELSE [store |-> s, ret |-> Some(B64Decode(s[peer].secret).val)]

\* get_shared_secret with the bug of emptying the whole store when it finds
\* one entry expired.
get_shared_secret_ClearsStore(s, peer, t) ==
    IF peer \notin DOMAIN s THEN [store |-> s, ret |-> None]
    ELSE LET expiry_time == FromIsoFormat(s[peer].expires_at)
         IN  IF ~expiry_time.ok THEN [store |-> s, ret |-> None]
             ELSE IF t > expiry_time.val
                  THEN [store |-> [p \in {} |-> None], ret |-> None]
             ELSE [store |-> s, ret |-> Some(B64Decode(s[peer].secret).val)]

\* get_shared_secret(node_id) on the store s at the clock's reading t: the
\* store afterwards and the value returned. Every exception ends in None.
get_shared_secret(s, peer, t) ==
    IF peer \notin DOMAIN s THEN [store |-> s, ret |-> None]
    ELSE LET secret_data == s[peer]
             expiry_time == FromIsoFormat(secret_data.expires_at)
             shared_secret_ == B64Decode(secret_data.secret)
         IN  IF ~expiry_time.ok THEN [store |-> s, ret |-> None]
             ELSE IF t > expiry_time.val
                  THEN [store |-> [p \in DOMAIN s \ {peer} |-> s[p]], ret |-> None]
             ELSE IF ~shared_secret_.ok THEN [store |-> s, ret |-> None]
             ELSE [store |-> s, ret |-> Some(shared_secret_.val)]

\* get_status() of a KeyManager with the given storage path, store and
\* public-key cache. len() of a dict does not raise, so the error branch is
\* never taken.
get_status(key_storage_path, s, node_keys) ==
    [storage_path |-> key_storage_path,
     active_shared_secrets |-> Cardinality(DOMAIN s),
     cached_public_keys |-> Cardinality(DOMAIN node_keys)]

\* ------------------------------------------------------------- the state
Nodes == {"A", "B"}

\* The two threads that call the KeyManager at the same time.
Threads == {"put", "get"}

VARIABLES
    private_key,     \* ECCmanager.private_key of each node, NoKey for None
    public_key,      \* ECCmanager.public_key of each node, NoKey for None
    node_id,         \* ECCmanager.node_id of each node, an optional
    shared_secrets,  \* KeyManager.shared_secrets: peer -> secret_data
    now,             \* the reading of datetime.utcnow()
    message,         \* the plaintext handed to the call under check
    shared_secret,   \* the secret handed to it, an optional
    encrypted_data,  \* what encrypt_message did: None before the call
    decrypted,       \* what decrypt_message did, with the secret it was given
    signature_data,  \* what sign_message did
    verified,        \* what verify_signature did, with the key it was given
    derived,         \* what perform_ecdh did at each node
    earlier_message, \* what the create_secure_message call before the last did
    secure_message,  \* what the last create_secure_message call did
    processed,       \* what the process_secure_message calls did, in order
    stored,          \* the arguments and clock readings of the last store_shared_secret
    fetched,         \* what the get_shared_secret call just made did
    public_key_pem,  \* what get_public_key_pem did at each node
    status,          \* what get_status did, with the store and clock it saw
    pc,              \* where each thread stands in its KeyManager call
    frame            \* the local variables of each thread's call

managerVars == <<private_key, public_key, node_id>>
storeVars == <<shared_secrets, now>>
putGetVars == <<stored, fetched>>
cipherVars == <<encrypted_data, decrypted>>
signVars == <<signature_data, verified>>
channelVars == <<derived, earlier_message, secure_message, processed>>
callVars == <<public_key_pem, status, pc, frame>>
vars == <<private_key, public_key, node_id, shared_secrets, now, message,
          shared_secret, encrypted_data, decrypted, signature_data, verified,
          derived, earlier_message, secure_message, processed, stored, fetched,
          public_key_pem, status, pc, frame>>

\* ------------------------------------------------------- drawn inputs
\* The context info of perform_ecdh: b'microgrid-secure-channel', shortened.
ChannelInfo == <<109, 115, 99>>

\* The secret derived from the shared point n.
SecretOf(n) == Hkdf(<<n>>, ChannelInfo)

\* Plaintexts on both sides of the block size, one of several blocks, one
\* with a two-byte character and one that holds the signing delimiter.
Plaintexts ==
    {Repeat(97, n) : n \in {0, 1, BlockSize - 1, BlockSize, BlockSize + 1, MaxLen}}
    \cup {<<86, 233>>, <<86, 58, 48, 50>>}

\* Values of os.urandom(16).
Ivs == {Repeat(0, BlockSize), [i \in 1..BlockSize |-> (37 * i) % 256]}

\* ECCmanager.__init__ and KeyManager.__init__, and no call made yet
InitState ==
    /\ private_key = [n \in Nodes |-> NoKey]
    /\ public_key = [n \in Nodes |-> NoKey]
    /\ node_id = [n \in Nodes |-> None]
    /\ shared_secrets = [p \in {} |-> None]
    /\ now = 1
    /\ encrypted_data = None
    /\ decrypted = None
    /\ signature_data = None
    /\ verified = None
    /\ derived = [n \in Nodes |-> None]
    /\ earlier_message = None
    /\ secure_message = None
    /\ processed = None
    /\ stored = None
    /\ fetched = None
    /\ public_key_pem = [n \in Nodes |-> None]
    /\ status = None
    /\ pc = [t \in Threads |-> "idle"]
    /\ frame = [t \in Threads |-> None]

\* --------------------------------------------- encrypt_message / decrypt_message
InitCipher ==
    /\ InitState
    /\ message \in Plaintexts
    /\ shared_secret \in {Some(SecretOf(n)) : n \in 1..2}

\* node A encrypts the drawn plaintext under the drawn secret
EncryptMessage(iv) ==
    /\ encrypted_data = None
    /\ encrypted_data' = Some(encrypt_message(node_id["A"], message, shared_secret,
                                              iv, now))
    /\ UNCHANGED <<callVars, managerVars, storeVars, message, shared_secret, decrypted,
                   signVars, channelVars, putGetVars>>

\* node B decrypts the envelope under the secret it holds
DecryptMessage(secret) ==
    /\ encrypted_data # None
    /\ encrypted_data[1].ok
    /\ decrypted = None
    /\ decrypted' = Some([secret |-> secret,
                          out |-> decrypt_message(encrypted_data[1].val, secret)])
    /\ UNCHANGED <<callVars, managerVars, storeVars, message, shared_secret, encrypted_data,
                   signVars, channelVars, putGetVars>>

NextCipher ==
    \/ \E iv \in Ivs : EncryptMessage(iv)
    \/ \E n \in 1..MaxSecret : DecryptMessage(Some(SecretOf(n)))

SpecCipher == InitCipher /\ [][NextCipher]_vars

\* C1: decrypting an envelope under the secret it was encrypted with returns
\* exactly the plaintext that was encrypted, whatever its length.
C1_RoundTrip ==
    (decrypted # None /\ decrypted[1].secret = shared_secret)
        => decrypted[1].out = Returns(message)

\* C1 witness: a plaintext of exactly one block came back from the round trip.
C1_Witness ==
    /\ decrypted # None
    /\ decrypted[1].secret = shared_secret
    /\ Len(message) = BlockSize
    /\ decrypted[1].out.ok

\* C3: decrypting under any other secret than the one used to encrypt ends
\* in an error and never returns a plaintext.
C3_WrongSecretFails ==
    (decrypted # None /\ decrypted[1].secret # shared_secret)
        => ~decrypted[1].out.ok

\* C18: for a plaintext of len bytes encrypt_message appends N bytes of value
\* N, N = 16 - (len % 16), so 1 <= N <= 16 with a whole block when len is a
\* multiple of 16, and the ciphertext has len + N bytes, a positive multiple
\* of 16.
C18_PaddingRule ==
    (encrypted_data # None /\ encrypted_data[1].ok) =>
        LET message_bytes == Utf8Encode(message)
            N == BlockSize - (Len(message_bytes) % BlockSize)
            ciphertext == B64Decode(encrypted_data[1].val.ciphertext).val
            padded == CipherDecrypt(shared_secret,
                                    B64Decode(encrypted_data[1].val.iv).val,
                                    ciphertext).val
        IN  /\ N >= 1 /\ N <= BlockSize
            /\ (Len(message_bytes) % BlockSize = 0 => N = BlockSize)
            /\ padded = message_bytes \o Repeat(N, N)
            /\ Len(ciphertext) = Len(message_bytes) + N
            /\ Len(ciphertext) > 0
            /\ Len(ciphertext) % BlockSize = 0

\* C18 witness: a plaintext of exactly one block was encrypted to two blocks.
C18_Witness ==
    /\ encrypted_data # None
    /\ encrypted_data[1].ok
    /\ Len(Utf8Encode(message)) = BlockSize
    /\ Len(B64Decode(encrypted_data[1].val.ciphertext).val) = 2 * BlockSize

\* ------------------------------------------- decrypt_message on any envelope
\* Buffers of one and two blocks whose last byte is 0, a valid padding
\* length, or more than the block size.
PaddedBuffers ==
    {Repeat(97, n - 1) \o <<last>> :
        n \in {BlockSize, 2 * BlockSize},
        last \in {0, 1, 2, BlockSize - 1, BlockSize, BlockSize + 1, 255}}

\* The envelope, in the format of encrypt_message, whose ciphertext is the
\* encryption of the buffer as it is.
EnvelopeOf(buffer, secret, iv, t) ==
    [ciphertext |-> B64Encode(CipherEncrypt(secret, iv, buffer).val),
     iv |-> B64Encode(iv),
     timestamp |-> IsoFormat(t),
     algorithm |-> "AES-256-CBC",
     sender |-> NodeIdOrUnknown(None)]

\* an envelope that some holder of the secret made arrives, to be handed to
\* decrypt_message
ReceiveEnvelope(buffer, iv) ==
    /\ encrypted_data = None
    /\ encrypted_data' = Some(Returns(EnvelopeOf(buffer, shared_secret, iv, now)))
    /\ UNCHANGED <<callVars, managerVars, storeVars, message, shared_secret,
                   decrypted, signVars, channelVars, putGetVars>>

InitPadding ==
    /\ InitState
    /\ message = <<>>
    /\ shared_secret \in {Some(SecretOf(n)) : n \in 1..2}

NextPadding ==
    \/ \E buffer \in PaddedBuffers, iv \in Ivs : ReceiveEnvelope(buffer, iv)
    \/ \E n \in 1..2 : DecryptMessage(Some(SecretOf(n)))

SpecPadding == InitPadding /\ [][NextPadding]_vars

\* The last byte of the buffer that decrypt_message obtained from the cipher.
LastByteDecrypted ==
    LET data == encrypted_data[1].val
        buffer == CipherDecrypt(decrypted[1].secret, B64Decode(data.iv).val,
                                B64Decode(data.ciphertext).val).val
    IN  buffer[Len(buffer)]

\* C16: decrypt_message fails whenever the last byte N of the decrypted
\* buffer is 0 or greater than 16; it returns a plaintext only when
\* 1 <= N <= 16.
C16_PaddingValidated ==
    (decrypted # None /\ decrypted[1].out.ok)
        => (LastByteDecrypted >= 1 /\ LastByteDecrypted <= BlockSize)

\* ------------------------------------------------ secrets of any length
\* Byte strings handed in as the secret: a derived secret, its first 16, 24
\* and 31 bytes, and the empty string.
AnySecrets ==
    {SubSeq(SecretOf(n), 1, len) : n \in 1..2, len \in {0, 16, 24, 31, SecretLen}}

\* store_shared_secret(peer, shared_secret, ttl) with the secret at hand
StoreSecretAtHand(peer, ttl) ==
    /\ now' = now
    /\ shared_secrets' =
          store_shared_secret(shared_secrets, peer, shared_secret, ttl, now, now).store
    /\ stored' = Some([peer |-> peer, secret |-> shared_secret, ttl |-> ttl,
                       t1 |-> now, t2 |-> now])
    /\ fetched' = None
    /\ UNCHANGED <<callVars, managerVars, message, shared_secret, cipherVars,
                   signVars, channelVars>>

InitLengths ==
    /\ InitState
    /\ message \in {<<>>, <<86, 233>>}
    /\ shared_secret \in {Some(secret) : secret \in AnySecrets}

NextLengths ==
    \/ \E peer \in {"B", "C"}, ttl \in {1, DefaultTtl} : StoreSecretAtHand(peer, ttl)
    \/ \E iv \in Ivs : EncryptMessage(iv)
    \/ DecryptMessage(shared_secret)

SpecLengths == InitLengths /\ [][NextLengths]_vars

\* C21: every secret in the store, and every secret with which
\* encrypt_message or decrypt_message returned a value, is exactly 32 bytes
\* long.
C21_SecretLength ==
    /\ \A p \in DOMAIN shared_secrets :
          Len(B64Decode(shared_secrets[p].secret).val) = SecretLen
    /\ (encrypted_data # None /\ encrypted_data[1].ok)
          => Len(shared_secret[1]) = SecretLen
    /\ (decrypted # None /\ decrypted[1].out.ok)
          => Len(decrypted[1].secret[1]) = SecretLen

\* ------------------------------------------------- key pairs and the clock
\* Values of ec.generate_private_key(self.curve).
PrivateKeys == 1..MaxKey

\* Values of the ECDSA nonce.
Nonces == {1, 2}

\* generate_key_pair(node_id) of node n, the node's name as its node_id
GenerateKeyPair(n, sk) ==
    /\ node_id' = [node_id EXCEPT ![n] = Some(n)]
    /\ private_key' = [private_key EXCEPT ![n] = sk]
    /\ public_key' = [public_key EXCEPT ![n] = PublicKeyOf(sk)]
    /\ UNCHANGED <<callVars, storeVars, message, shared_secret, cipherVars, signVars,
                   channelVars, putGetVars>>

\* time passes
Tick ==
    /\ now < MaxTime
    /\ now' = now + 1
    /\ UNCHANGED <<callVars, managerVars, shared_secrets, message, shared_secret, cipherVars,
                   signVars, channelVars, putGetVars>>

\* ------------------------------------------- sign_message / verify_signature
SignMessages == {<<>>, <<86, 233>>, <<86, 58, 48, 50>>}

InitSign ==
    /\ InitState
    /\ message \in SignMessages
    /\ shared_secret = None

\* node A signs the drawn message; `by` keeps the public key of the pair
\* that signed
SignMessage(include_timestamp, k) ==
    /\ signature_data = None
    /\ signature_data' = Some([by |-> public_key["A"],
                               out |-> sign_message(private_key["A"], node_id["A"],
                                                    message, include_timestamp,
                                                    now, k)])
    /\ UNCHANGED <<callVars, managerVars, storeVars, message, shared_secret, cipherVars,
                   verified, channelVars, putGetVars>>

\* the `message` field of the signature structure is changed after signing
TamperMessage(other) ==
    /\ signature_data # None
    /\ signature_data[1].out.ok
    /\ verified = None
    /\ other # signature_data[1].out.val.message
    /\ signature_data' =
          Some([signature_data[1] EXCEPT !.out.val.message = other])
    /\ UNCHANGED <<callVars, managerVars, storeVars, message, shared_secret, cipherVars,
                   verified, channelVars, putGetVars>>

\* the signature structure is verified under the public key pk
VerifySignature(pk) ==
    /\ signature_data # None
    /\ signature_data[1].out.ok
    /\ verified = None
    /\ verified' = Some([public_key |-> pk,
                         out |-> verify_signature(signature_data[1].out.val, pk)])
    /\ UNCHANGED <<callVars, managerVars, storeVars, message, shared_secret, cipherVars,
                   signature_data, channelVars, putGetVars>>

NextSign ==
    \/ \E n \in Nodes, sk \in PrivateKeys : GenerateKeyPair(n, sk)
    \/ Tick
    \/ \E ts \in BOOLEAN, k \in Nonces : SignMessage(ts, k)
    \/ \E other \in SignMessages : TamperMessage(other)
    \/ \E n \in Nodes : public_key[n] # NoKey /\ VerifySignature(public_key[n])

SpecSign == InitSign /\ [][NextSign]_vars

\* C8: a structure made by sign_message verifies under the signer's public
\* key when it is left as signed, does not verify under any other public key,
\* and does not verify once its `message` field differs from the signed one.
C8_SignVerify ==
    verified # None =>
        LET by == signature_data[1].by
            asSigned == signature_data[1].out.val.message = message
        IN  verified[1].out = (verified[1].public_key = by /\ asSigned)

\* C8 witnesses: a valid verification, a refusal under another key and a
\* refusal of a changed message have all happened in some state.
C8_Witness ==
    /\ verified # None
    /\ verified[1].public_key = signature_data[1].by
    /\ signature_data[1].out.val.message = message
    /\ signature_data[1].out.val.timestamp # None
    /\ verified[1].out

C8_WitnessTampered ==
    /\ verified # None
    /\ verified[1].public_key = signature_data[1].by
    /\ signature_data[1].out.val.message # message
    /\ ~verified[1].out

\* --------------------------------- verify_signature on a changed structure
\* The structure made by sign_message is changed to `changed` before it is
\* verified; `signed` keeps the structure as it was signed.
ChangeSignature(changed) ==
    /\ signature_data # None
    /\ signature_data[1].out.ok
    /\ "signed" \notin DOMAIN signature_data[1]
    /\ verified = None
    /\ signature_data' = Some([by |-> signature_data[1].by,
                               out |-> Returns(changed),
                               signed |-> signature_data[1].out.val])
    /\ UNCHANGED <<callVars, managerVars, storeVars, message, shared_secret,
                   cipherVars, verified, channelVars, putGetVars>>

\* the base64 text of the signature loses its last symbol
TruncateSignature ==
    LET d == signature_data[1].out.val
    IN  ChangeSignature([d EXCEPT !.signature = SubSeq(@, 1, Len(@) - 1)])

\* the `signature` field is removed
DropSignatureField ==
    LET d == signature_data[1].out.val
    IN  ChangeSignature([f \in DOMAIN d \ {"signature"} |-> d[f]])

\* the timestamp is removed and ':' + timestamp is moved into `message`
MoveTimestampIntoMessage ==
    LET d == signature_data[1].out.val
    IN  /\ signature_data # None
        /\ signature_data[1].out.ok
        /\ d.timestamp # None
        /\ ChangeSignature([d EXCEPT !.message = @ \o <<58>> \o d.timestamp[1],
                                     !.timestamp = None])

\* a statement signed without timestamp is given one: what follows a ':' of
\* `message` is moved into `timestamp`
MoveMessageIntoTimestamp ==
    LET d == signature_data[1].out.val
    IN  /\ signature_data # None
        /\ signature_data[1].out.ok
        /\ d.timestamp = None
        /\ \E i \in 1..(Len(d.message) - 1) :
              /\ d.message[i] = 58
              /\ ChangeSignature(
                    [d EXCEPT !.message = SubSeq(@, 1, i - 1),
                              !.timestamp = Some(SubSeq(d.message, i + 1,
                                                        Len(d.message)))])

NextVerify ==
    \/ \E sk \in PrivateKeys : signature_data = None /\ GenerateKeyPair("A", sk)
    \/ \E include_timestamp \in BOOLEAN, k \in Nonces :
          SignMessage(include_timestamp, k)
    \/ TruncateSignature
    \/ DropSignatureField
    \/ MoveTimestampIntoMessage
    \/ MoveMessageIntoTimestamp
    \/ \E sk \in PrivateKeys : VerifySignature(PublicKeyOf(sk))
    \/ VerifySignature(NoKey)

SpecVerify == InitSign /\ [][NextVerify]_vars

\* The call just made could not come to a verification: a field is missing,
\* the signature is no base64 text, or the key is no public key.
StructuralFailure ==
    LET d == signature_data[1].out.val
    IN  \/ "signature" \notin DOMAIN d
        \/ ~B64WellFormed(d.signature)
        \/ verified[1].public_key = NoKey

\* C17: a structural failure is reported by verify_signature as something
\* else than the False of an invalid signature.
C17_ErrorsDistinguished ==
    (verified # None /\ StructuralFailure) => verified[1].out # FALSE

\* C19: once the presence of the timestamp in a structure made by
\* sign_message is changed, verify_signature returns False under the signer's
\* key.
C19_TimestampPresenceBound ==
    (/\ verified # None
     /\ "signed" \in DOMAIN signature_data[1]
     /\ "signature" \in DOMAIN signature_data[1].out.val
     /\ (signature_data[1].signed.timestamp = None)
           # (signature_data[1].out.val.timestamp = None)
     /\ verified[1].public_key = signature_data[1].by)
        => ~verified[1].out

\* ------------------------------------------------------ the secure channel
ChannelMessages == {<<>>, <<86, 58, 48, 50>>}

\* simulate_matlab_key_exchange: each node derives the channel secret from
\* its private key and the public key of the other node. `own` and `peer`
\* keep the public keys the derivation saw.
KeyExchange ==
    /\ derived' = [n \in Nodes |->
                      LET peer == CHOOSE p \in Nodes : p # n
                      IN  Some([own |-> public_key[n],
                                peer |-> public_key[peer],
                                out |-> perform_ecdh(private_key[n], public_key[peer],
                                                     ChannelInfo)])]
    /\ UNCHANGED <<callVars, managerVars, storeVars, message, shared_secret, cipherVars,
                   signVars, earlier_message, secure_message, processed, putGetVars>>

\* create_secure_message(m, secret, sign) at node n. The clock is read three
\* times, in encrypt_message (t1), for created_at (t2) and in sign_message
\* (t3), and may have moved on in between.
CreateSecureMessage(n, m, secret, sign, iv, k) ==
    \E t3 \in now..(now + 1) : \E t1, t2 \in now..t3 :
        /\ t3 <= MaxTime
        /\ t1 <= t2
        /\ message' = m
        /\ shared_secret' = secret
        /\ earlier_message' = secure_message
        /\ secure_message' =
              Some([by |-> public_key[n],
                    plaintext |-> m,
                    secret |-> secret,
                    sign |-> sign,
                    out |-> create_secure_message(private_key[n], node_id[n], m,
                                                  secret, sign, iv, t1, t2, t3, k)])
        /\ now' = t3
        /\ UNCHANGED <<callVars, managerVars, shared_secrets, cipherVars, signVars, derived,
                       processed, putGetVars>>

\* The secret a node holds for the channel: the one it derived, None if it
\* derived none.
ChannelSecret(n) ==
    IF derived[n] # None /\ derived[n][1].out.ok
    THEN Some(derived[n][1].out.val)
    ELSE None

\* node n sends m over the channel
SendSecure(n, m, sign, iv, k) ==
    /\ secure_message = None
    /\ CreateSecureMessage(n, m, ChannelSecret(n), sign, iv, k)

\* node n processes the message in flight with the secret it holds and the
\* sender public key pk (NoKey: none supplied)
ReceiveSecure(n, pk) ==
    /\ secure_message # None
    /\ secure_message[1].out.ok
    /\ processed = None
    /\ processed' =
          Some([secret |-> ChannelSecret(n),
                sender_public_key |-> pk,
                out |-> process_secure_message(secure_message[1].out.val,
                                               ChannelSecret(n), pk)])
    /\ UNCHANGED <<callVars, managerVars, storeVars, message, shared_secret, cipherVars,
                   signVars, derived, earlier_message, secure_message, putGetVars>>

Init ==
    /\ InitState
    /\ message = <<>>
    /\ shared_secret = None

\* Key pairs are generated and exchanged, then A sends one message, then B
\* processes it.
Next ==
    \/ \E n \in Nodes, sk \in PrivateKeys :
          secure_message = None /\ GenerateKeyPair(n, sk)
    \/ secure_message = None /\ KeyExchange
    \/ \E m \in ChannelMessages, sign \in BOOLEAN :
          SendSecure("A", m, sign, Repeat(0, BlockSize), 1)
    \/ \E with_key \in BOOLEAN, n \in Nodes :
          ReceiveSecure("B", IF with_key THEN public_key[n] ELSE NoKey)

Spec == Init /\ [][Next]_vars

\* C2: when B processes the unmodified message that A built with sign=True,
\* under the same derived secret and with the public key of A's signing pair,
\* it obtains exactly the plaintext and signature_valid is True.
C2_EndToEnd ==
    (/\ processed # None
     /\ secure_message[1].sign
     /\ secure_message[1].secret # None
     /\ processed[1].secret = secure_message[1].secret
     /\ processed[1].sender_public_key = secure_message[1].by)
        => /\ processed[1].out.ok
           /\ processed[1].out.val.message = secure_message[1].plaintext
           /\ processed[1].out.val.signature_valid = Some(TRUE)

\* C2 witness: a non-empty plaintext sent signed by A was processed by B with
\* A's public key.
C2_Witness ==
    /\ processed # None
    /\ secure_message[1].sign
    /\ secure_message[1].plaintext # <<>>
    /\ processed[1].secret = secure_message[1].secret
    /\ processed[1].sender_public_key = secure_message[1].by
    /\ processed[1].out.ok

\* C7: process_secure_message reports signature_valid None when no sender
\* public key is supplied or the message carries no signature, False when the
\* signature is checked under a key that is not the signer's (and True under
\* the signer's), and in all these cases returns the decrypted plaintext.
C7_SignatureStatus ==
    processed # None =>
        LET sm == secure_message[1]
            p == processed[1]
            attempted == "signature" \in DOMAIN sm.out.val
                         /\ p.sender_public_key # NoKey
        IN  /\ p.out.ok
            /\ p.out.val.message = sm.plaintext
            /\ p.out.val.signature_valid =
                  IF attempted THEN Some(p.sender_public_key = sm.by) ELSE None

\* C7 witness: a signature checked under another key than the signer's was
\* reported False and the plaintext came back.
C7_Witness ==
    /\ processed # None
    /\ processed[1].out.ok
    /\ processed[1].out.val.signature_valid = Some(FALSE)
    /\ processed[1].out.val.message = secure_message[1].plaintext

\* C7 witness of the unknown status: a signed message processed without a
\* sender public key.
C7_WitnessUnknown ==
    /\ processed # None
    /\ processed[1].out.ok
    /\ "signature" \in DOMAIN secure_message[1].out.val
    /\ processed[1].out.val.signature_valid = None

\* C9: the secrets the two nodes derive from their own private key and the
\* other's public key are equal, and 32 bytes long.
C9_EcdhSymmetry ==
    (/\ derived["A"] # None
     /\ derived["A"][1].out.ok
     /\ derived["B"][1].out.ok)
        => /\ derived["A"][1].out.val = derived["B"][1].out.val
           /\ Len(derived["A"][1].out.val) = SecretLen

\* C9 witness: two nodes with different key pairs have both derived a secret.
C9_Witness ==
    /\ derived["A"] # None
    /\ derived["A"][1].out.ok
    /\ derived["B"][1].out.ok
    /\ derived["A"][1].own # derived["B"][1].own

\* ------------------------------------------------------- key lifecycle
\* get_public_key_pem() at node n; `keyed` tells whether generate_key_pair
\* had succeeded at the node when the call was made
GetPublicKeyPem(n) ==
    /\ public_key_pem' =
          [public_key_pem EXCEPT ![n] =
              Some([keyed |-> private_key[n] # NoKey,
                    out |-> get_public_key_pem(public_key[n])])]
    /\ UNCHANGED <<managerVars, storeVars, message, shared_secret, cipherVars,
                   signVars, channelVars, putGetVars, status, pc, frame>>

\* perform_ecdh(peer_public_key) at node n with a peer's public key
PerformEcdh(n, peer_public_key) ==
    /\ derived' = [derived EXCEPT ![n] =
                      Some([keyed |-> private_key[n] # NoKey,
                            own |-> public_key[n],
                            peer |-> peer_public_key,
                            out |-> perform_ecdh(private_key[n], peer_public_key,
                                                 ChannelInfo)])]
    /\ UNCHANGED <<callVars, managerVars, storeVars, message, shared_secret,
                   cipherVars, signVars, earlier_message, secure_message, processed,
                   putGetVars>>

\* sign_message(message, include_timestamp) at node n
SignAt(n, include_timestamp, k) ==
    /\ signature_data' = Some([keyed |-> private_key[n] # NoKey,
                               by |-> public_key[n],
                               out |-> sign_message(private_key[n], node_id[n],
                                                    message, include_timestamp,
                                                    now, k)])
    /\ UNCHANGED <<callVars, managerVars, storeVars, message, shared_secret,
                   cipherVars, verified, channelVars, putGetVars>>

InitKeys ==
    /\ InitState
    /\ message = <<86>>
    /\ shared_secret = None

NextKeys ==
    \/ \E sk \in PrivateKeys : GenerateKeyPair("A", sk)
    \/ GetPublicKeyPem("A")
    \/ \E sk \in PrivateKeys : PerformEcdh("A", PublicKeyOf(sk))
    \/ \E include_timestamp \in BOOLEAN : SignAt("A", include_timestamp, 1)

SpecKeys == InitKeys /\ [][NextKeys]_vars

\* Every call made so far failed exactly when its manager had no key pair.
KeyedCallsSucceed ==
    /\ \A n \in Nodes :
          public_key_pem[n] # None
              => (public_key_pem[n][1].out.ok <=> public_key_pem[n][1].keyed)
    /\ \A n \in Nodes :
          derived[n] # None => (derived[n][1].out.ok <=> derived[n][1].keyed)
    /\ signature_data # None
          => (signature_data[1].out.ok <=> signature_data[1].keyed)

\* A step that is one of the three calls leaves the manager as it was.
CallKeepsManager ==
    (\/ public_key_pem' # public_key_pem
     \/ derived' # derived
     \/ signature_data' # signature_data)
        => UNCHANGED managerVars

\* C15: get_public_key_pem, perform_ecdh and sign_message fail with an error
\* on a manager without a key pair and succeed on one with a key pair, and
\* none of these calls changes the manager's keys or node_id.
C15_KeyLifecycle == []KeyedCallsSucceed /\ [][CallKeepsManager]_vars

\* C15 witness: at node A all three calls were made; get_public_key_pem
\* failed before the key pair was generated, perform_ecdh and sign_message
\* succeeded after it.
C15_Witness ==
    /\ public_key_pem["A"] # None
    /\ ~public_key_pem["A"][1].out.ok
    /\ private_key["A"] # NoKey
    /\ derived["A"] # None
    /\ derived["A"][1].out.ok
    /\ signature_data # None
    /\ signature_data[1].out.ok

\* ------------------------------------------------------------------ replay
\* One tick after node n processed the message in flight, the identical
\* message is handed to process_secure_message of the same node again, with
\* the same secret and sender public key.
ReplaySecure(n) ==
    /\ Len(processed) = 1
    /\ processed[1].out.ok
    /\ now < MaxTime
    /\ now' = now + 1
    /\ processed' =
          Append(processed,
                 [secret |-> processed[1].secret,
                  sender_public_key |-> processed[1].sender_public_key,
                  out |-> process_secure_message(secure_message[1].out.val,
                                                 processed[1].secret,
                                                 processed[1].sender_public_key)])
    /\ UNCHANGED <<callVars, managerVars, shared_secrets, message, shared_secret,
                   cipherVars, signVars, derived, earlier_message, secure_message,
                   putGetVars>>

NextReplay ==
    \/ Next
    \/ ReplaySecure("B")

SpecReplay == Init /\ [][NextReplay]_vars

\* C11: a secure message that the receiver has processed successfully is not
\* accepted when the identical message is presented again later.
C11_ReplayRejected ==
    Len(processed) = 2 => ~processed[2].out.ok

\* --------------------------------------------- a signature on another envelope
\* node A sends a second signed message over the channel before B has
\* processed the first
SendSecond(m, iv) ==
    /\ secure_message # None
    /\ earlier_message = None
    /\ processed = None
    /\ CreateSecureMessage("A", m, ChannelSecret("A"), TRUE, iv, 1)

\* On the way to B the signed statement of the second message is replaced by
\* the one of the first; the envelope of the second is left as sent.
SpliceSignature ==
    /\ earlier_message # None
    /\ earlier_message[1].out.ok
    /\ secure_message[1].out.ok
    /\ "signature" \in DOMAIN earlier_message[1].out.val
    /\ "signature" \in DOMAIN secure_message[1].out.val
    /\ "spliced" \notin DOMAIN secure_message[1]
    /\ processed = None
    /\ secure_message' =
          Some([by |-> secure_message[1].by,
                plaintext |-> secure_message[1].plaintext,
                secret |-> secure_message[1].secret,
                sign |-> secure_message[1].sign,
                spliced |-> TRUE,
                out |-> Returns([secure_message[1].out.val EXCEPT
                                    !.signature =
                                        earlier_message[1].out.val.signature])])
    /\ UNCHANGED <<callVars, managerVars, storeVars, message, shared_secret,
                   cipherVars, signVars, derived, earlier_message, processed,
                   putGetVars>>

NextSplice ==
    \/ Next
    \/ \E m \in ChannelMessages : SendSecond(m, Repeat(0, BlockSize))
    \/ SpliceSignature

SpecSplice == Init /\ [][NextSplice]_vars

\* C23: whenever process_secure_message returns signature_valid True, the
\* plaintext it returns is the payload that the verified signature was made
\* over.
C23_SignatureCoversPlaintext ==
    (/\ processed # None
     /\ processed[1].out.ok
     /\ processed[1].out.val.signature_valid = Some(TRUE))
        => processed[1].out.val.message = secure_message[1].out.val.signature.message

\* -------------------------------------------------------------- message_id
IdMessages == {<<>>, <<86>>}

InitIds ==
    /\ InitState
    /\ message = <<>>
    /\ shared_secret = None

\* A first message is built by A, then a second one by either node, under
\* either secret, signed or not, with either IV, at the same or a later time.
NextIds ==
    \/ \E n \in Nodes : secure_message = None /\ GenerateKeyPair(n, 1)
    \/ \E m \in IdMessages :
          /\ secure_message = None
          /\ CreateSecureMessage("A", m, Some(SecretOf(1)), TRUE,
                                 Repeat(0, BlockSize), 1)
    \/ \E n \in Nodes, m \in IdMessages, c \in 1..2, sign \in BOOLEAN, iv \in Ivs :
          /\ secure_message # None
          /\ earlier_message = None
          /\ CreateSecureMessage(n, m, Some(SecretOf(c)), sign, iv, 1)

SpecIds == InitIds /\ [][NextIds]_vars

IsHexChar(c) == (c >= 48 /\ c <= 57) \/ (c >= 97 /\ c <= 102)

\* C10: the message_id of two messages is the same exactly when their
\* plaintexts are, whatever the secret, the sender, the IV, the time and the
\* sign flag of the two calls; it is 16 hex characters.
C10_MessageId ==
    (earlier_message # None /\ earlier_message[1].out.ok /\ secure_message[1].out.ok)
        => LET a == earlier_message[1]
               b == secure_message[1]
           IN  /\ (a.out.val.message_id = b.out.val.message_id)
                      <=> (a.plaintext = b.plaintext)
               /\ Len(b.out.val.message_id) = MessageIdLen
               /\ \A i \in 1..Len(b.out.val.message_id) :
                     IsHexChar(b.out.val.message_id[i])

\* C10 witness: the same plaintext was sent twice, by another node, under
\* another secret and IV, at another time and unsigned the second time.
C10_Witness ==
    /\ earlier_message # None
    /\ earlier_message[1].out.ok
    /\ secure_message[1].out.ok
    /\ earlier_message[1].plaintext = secure_message[1].plaintext
    /\ earlier_message[1].secret # secure_message[1].secret
    /\ earlier_message[1].out.val.sender_node # secure_message[1].out.val.sender_node
    /\ earlier_message[1].out.val.created_at # secure_message[1].out.val.created_at
    /\ earlier_message[1].out.val.encrypted_data.iv
          # secure_message[1].out.val.encrypted_data.iv
    /\ "signature" \in DOMAIN earlier_message[1].out.val
    /\ "signature" \notin DOMAIN secure_message[1].out.val

\* C22: a message that create_secure_message returned for sign=True carries
\* a signature.
C22_SigningHonoured ==
    (secure_message # None /\ secure_message[1].out.ok /\ secure_message[1].sign)
        => "signature" \in DOMAIN secure_message[1].out.val

\* ------------------------------------------------------------ the store
Peers == {"B", "C"}

\* Values of expires_in_hours, in ticks: an expiry already past, none at
\* all, one tick and the default.
Ttls == {-1, 0, 1, DefaultTtl}

\* store_shared_secret(peer, secret, ttl): the clock may move on between the
\* two readings
StoreSharedSecret(peer, secret, ttl) ==
    \E t2 \in now..(now + 1) :
        /\ t2 <= MaxTime
        /\ shared_secrets' =
              store_shared_secret(shared_secrets, peer, secret, ttl, now, t2).store
        /\ stored' = Some([peer |-> peer, secret |-> secret, ttl |-> ttl,
                           t1 |-> now, t2 |-> t2])
        /\ fetched' = None
        /\ now' = t2
        /\ UNCHANGED <<callVars, managerVars, message, shared_secret, cipherVars, signVars,
                       channelVars>>

\* get_shared_secret(peer): `before` keeps the entry the call found, `at` the
\* clock's reading
GetSharedSecret(peer) ==
    /\ shared_secrets' = get_shared_secret(shared_secrets, peer, now).store
    /\ fetched' = Some([peer |-> peer,
                        at |-> now,
                        before |-> IF peer \in DOMAIN shared_secrets
                                   THEN Some(shared_secrets[peer]) ELSE None,
                        ret |-> get_shared_secret(shared_secrets, peer, now).ret])
    /\ UNCHANGED <<callVars, managerVars, now, message, shared_secret, cipherVars, signVars,
                   channelVars, stored>>

\* time passes in the store's checks
TickStore ==
    /\ now < MaxTime
    /\ now' = now + 1
    /\ fetched' = None
    /\ UNCHANGED <<callVars, managerVars, shared_secrets, message, shared_secret, cipherVars,
                   signVars, channelVars, stored>>

InitStore ==
    /\ InitState
    /\ message = <<>>
    /\ shared_secret = None

NextStore ==
    \/ \E peer \in Peers, c \in 1..2, ttl \in Ttls :
          StoreSharedSecret(peer, Some(SecretOf(c)), ttl)
    \/ \E peer \in Peers : GetSharedSecret(peer)
    \/ TickStore

SpecStore == InitStore /\ [][NextStore]_vars

\* The instant written in an entry's expires_at.
ExpiresAt(secret_data) == FromIsoFormat(secret_data.expires_at).val

\* C4: get_shared_secret returns the stored secret exactly when there is an
\* entry for the peer and the clock is not past its expires_at, and then
\* leaves the entry in place; when the clock is past it, the call returns
\* None and the entry is gone from the store afterwards.
C4_LazyExpiry ==
    fetched # None =>
        LET f == fetched[1]
            live == f.before # None /\ f.at <= ExpiresAt(f.before[1])
        IN  /\ (f.ret # None) <=> live
            /\ live => /\ B64Encode(f.ret[1]) = f.before[1].secret
                       /\ f.peer \in DOMAIN shared_secrets
                       /\ shared_secrets[f.peer] = f.before[1]
                       /\ (stored[1].peer = f.peer => f.ret = stored[1].secret)
            /\ (f.before # None /\ ~live) => f.peer \notin DOMAIN shared_secrets

\* C4 witness: a get found an expired entry, returned None and evicted it.
C4_Witness ==
    /\ fetched # None
    /\ fetched[1].before # None
    /\ fetched[1].at > ExpiresAt(fetched[1].before[1])
    /\ fetched[1].ret = None
    /\ fetched[1].peer \notin DOMAIN shared_secrets

\* The get just made found the entry that the last store call wrote with a
\* ttl of zero or less.
GotNonPositiveTtl ==
    /\ fetched # None
    /\ fetched[1].before # None
    /\ stored[1].peer = fetched[1].peer
    /\ stored[1].ttl <= 0

\* C5 as stated: a secret stored with ttl = 0, or with an expiry already
\* past, is never returned by get_shared_secret, whenever the get happens,
\* and the entry is gone after the get.
C5_NeverReturned ==
    GotNonPositiveTtl =>
        /\ fetched[1].ret = None
        /\ fetched[1].peer \notin DOMAIN shared_secrets

\* C5 as amended: such a secret is not returned by any get whose clock
\* reading is later than the expiry instant (the store's first clock reading
\* plus ttl), which is every get when ttl < 0, and the entry is gone after
\* that get.
C5_NotReturnedPastExpiry ==
    (GotNonPositiveTtl /\ fetched[1].at > stored[1].t1 + stored[1].ttl) =>
        /\ fetched[1].ret = None
        /\ fetched[1].peer \notin DOMAIN shared_secrets

\* C5 witness: a secret stored with ttl = 0 was looked up one tick later,
\* was not returned and was evicted.
C5_Witness ==
    /\ GotNonPositiveTtl
    /\ stored[1].ttl = 0
    /\ fetched[1].at > stored[1].t1
    /\ fetched[1].ret = None
    /\ fetched[1].peer \notin DOMAIN shared_secrets

\* ------------------------------------------------- entries of the store
\* The instant written in an entry's created_at.
CreatedAt(secret_data) == FromIsoFormat(secret_data.created_at).val

\* C13: the entry of the peer of the most recent store_shared_secret carries
\* the secret of that call, a created_at that is the time of the call and an
\* expires_at that is this time plus the ttl; a get of that peer that returns
\* a secret returns that one.
C13_Overwrite ==
    (stored # None /\ stored[1].peer \in DOMAIN shared_secrets) =>
        LET put == stored[1]
            entry == shared_secrets[put.peer]
        IN  /\ entry.secret = B64Encode(put.secret[1])
            /\ CreatedAt(entry) \in put.t1..put.t2
            /\ ExpiresAt(entry) = CreatedAt(entry) + put.ttl
            /\ (fetched # None /\ fetched[1].peer = put.peer /\ fetched[1].ret # None)
                  => fetched[1].ret = put.secret

\* The part of C13 that does not depend on which clock reading is written
\* where: the latest secret, a created_at read during the call, an expires_at
\* of the call's first clock reading plus the ttl.
C13_LatestSecret ==
    (stored # None /\ stored[1].peer \in DOMAIN shared_secrets) =>
        LET put == stored[1]
            entry == shared_secrets[put.peer]
        IN  /\ entry.secret = B64Encode(put.secret[1])
            /\ CreatedAt(entry) = put.t2
            /\ ExpiresAt(entry) = put.t1 + put.ttl
            /\ (fetched # None /\ fetched[1].peer = put.peer /\ fetched[1].ret # None)
                  => fetched[1].ret = put.secret

\* The state of the channel to a peer: SECRET_ACTIVE while the store holds an
\* entry for it.
ChannelState(s, peer) == IF peer \in DOMAIN s THEN "SECRET_ACTIVE" ELSE "NO_SECRET"

\* C14: the channel of a peer goes from NO_SECRET to SECRET_ACTIVE only in a
\* store_shared_secret for that peer and from SECRET_ACTIVE to NO_SECRET only
\* in a get_shared_secret for that peer that finds its entry expired; a get
\* of an unexpired entry changes nothing in the store. (A step is a
\* store_shared_secret for p exactly when it is one with the arguments that
\* the step leaves in `stored`.)
C14_ChannelStateMachine ==
    [][\A p \in Peers :
          /\ (/\ ChannelState(shared_secrets, p) = "NO_SECRET"
              /\ ChannelState(shared_secrets', p) = "SECRET_ACTIVE")
                => /\ stored' # None
                   /\ StoreSharedSecret(p, stored'[1].secret, stored'[1].ttl)
          /\ (/\ ChannelState(shared_secrets, p) = "SECRET_ACTIVE"
              /\ ChannelState(shared_secrets', p) = "NO_SECRET")
                => /\ GetSharedSecret(p)
                   /\ now > ExpiresAt(shared_secrets[p])
          /\ (/\ ChannelState(shared_secrets, p) = "SECRET_ACTIVE"
              /\ now <= ExpiresAt(shared_secrets[p])
              /\ fetched' # None
              /\ GetSharedSecret(p))
                => shared_secrets' = shared_secrets]_vars

\* C14 witness: a get has just evicted the expired entry of one peer while
\* the other peer's channel is active.
C14_Witness ==
    /\ fetched # None
    /\ fetched[1].before # None
    /\ fetched[1].ret = None
    /\ ChannelState(shared_secrets, fetched[1].peer) = "NO_SECRET"
    /\ \E p \in Peers \ {fetched[1].peer} :
          ChannelState(shared_secrets, p) = "SECRET_ACTIVE"

\* C20: every entry of the store has an expires_at strictly later than its
\* created_at.
C20_ExpiresAfterCreated ==
    \A p \in DOMAIN shared_secrets :
        ExpiresAt(shared_secrets[p]) > CreatedAt(shared_secrets[p])

\* ------------------------------------------------- threads on the store
\* store_shared_secret("B", fresh, ttl) and get_shared_secret("B") run in two
\* threads of one process. KeyManager takes no lock, so the threads
\* interleave between the statements of the two methods, and the clock may
\* move on between any two of them.
OldSecret == SecretOf(1)
FreshSecret == SecretOf(2)

\* line 93: expiry_time = datetime.utcnow() + timedelta(hours=expires_in_hours)
PutExpiry(ttl) ==
    /\ pc["put"] = "idle"
    /\ frame' = [frame EXCEPT !["put"] = [expiry_time |-> now + ttl]]
    /\ pc' = [pc EXCEPT !["put"] = "build"]
    /\ UNCHANGED <<managerVars, storeVars, message, shared_secret, cipherVars,
                   signVars, channelVars, putGetVars, public_key_pem, status>>

\* lines 95-100: secret_data = {...}, created_at read from the clock again
PutBuild ==
    /\ pc["put"] = "build"
    /\ frame' = [frame EXCEPT !["put"] =
                    [secret_data |->
                        [secret |-> B64Encode(FreshSecret),
                         created_at |-> IsoFormat(now),
                         expires_at |-> IsoFormat(frame["put"].expiry_time),
                         partner_node |-> "B"]]]
    /\ pc' = [pc EXCEPT !["put"] = "assign"]
    /\ UNCHANGED <<managerVars, storeVars, message, shared_secret, cipherVars,
                   signVars, channelVars, putGetVars, public_key_pem, status>>

\* line 102: self.shared_secrets[node_id] = secret_data
PutAssign ==
    /\ pc["put"] = "assign"
    /\ shared_secrets' = [p \in DOMAIN shared_secrets \cup {"B"} |->
                             IF p = "B" THEN frame["put"].secret_data
                             ELSE shared_secrets[p]]
    /\ pc' = [pc EXCEPT !["put"] = "done"]
    /\ UNCHANGED <<managerVars, now, message, shared_secret, cipherVars, signVars,
                   channelVars, putGetVars, public_key_pem, status, frame>>

\* lines 112-114: if node_id not in self.shared_secrets: return None
GetLookup ==
    /\ pc["get"] = "idle"
    /\ IF "B" \in DOMAIN shared_secrets
       THEN /\ pc' = [pc EXCEPT !["get"] = "read"]
            /\ frame' = frame
       ELSE /\ pc' = [pc EXCEPT !["get"] = "done"]
            /\ frame' = [frame EXCEPT !["get"] = [expired |-> FALSE, ret |-> None]]
    /\ UNCHANGED <<managerVars, storeVars, message, shared_secret, cipherVars,
                   signVars, channelVars, putGetVars, public_key_pem, status>>

\* lines 116-117: secret_data = self.shared_secrets[node_id] and its expiry
\* time; a KeyError ends in the handler of line 127, which returns None
GetRead ==
    /\ pc["get"] = "read"
    /\ IF "B" \in DOMAIN shared_secrets
       THEN /\ pc' = [pc EXCEPT !["get"] = "check"]
            /\ frame' = [frame EXCEPT !["get"] =
                            [secret_data |-> shared_secrets["B"],
                             expiry_time |->
                                 FromIsoFormat(shared_secrets["B"].expires_at).val]]
       ELSE /\ pc' = [pc EXCEPT !["get"] = "done"]
            /\ frame' = [frame EXCEPT !["get"] = [expired |-> FALSE, ret |-> None]]
    /\ UNCHANGED <<managerVars, storeVars, message, shared_secret, cipherVars,
                   signVars, channelVars, putGetVars, public_key_pem, status>>

\* line 119: if datetime.utcnow() > expiry_time; lines 124-125 when it is not
GetCheck ==
    /\ pc["get"] = "check"
    /\ IF now > frame["get"].expiry_time
       THEN /\ pc' = [pc EXCEPT !["get"] = "delete"]
            /\ frame' = frame
       ELSE /\ pc' = [pc EXCEPT !["get"] = "done"]
            /\ frame' = [frame EXCEPT !["get"] =
                            [expired |-> FALSE,
                             ret |-> Some(B64Decode(
                                        frame["get"].secret_data.secret).val)]]
    /\ UNCHANGED <<managerVars, storeVars, message, shared_secret, cipherVars,
                   signVars, channelVars, putGetVars, public_key_pem, status>>

\* lines 121-122: del self.shared_secrets[node_id]; return None (a KeyError
\* of del ends in the handler of line 127, which returns None as well)
GetDelete ==
    /\ pc["get"] = "delete"
    /\ shared_secrets' = [p \in DOMAIN shared_secrets \ {"B"} |-> shared_secrets[p]]
    /\ pc' = [pc EXCEPT !["get"] = "done"]
    /\ frame' = [frame EXCEPT !["get"] = [expired |-> TRUE, ret |-> None]]
    /\ UNCHANGED <<managerVars, now, message, shared_secret, cipherVars, signVars,
                   channelVars, putGetVars, public_key_pem, status>>

\* time passes while the threads run
TickThreads ==
    /\ \E t \in Threads : pc[t] # "done"
    /\ now < MaxTime
    /\ now' = now + 1
    /\ UNCHANGED <<callVars, managerVars, shared_secrets, message, shared_secret,
                   cipherVars, signVars, channelVars, putGetVars>>

InitThreads ==
    /\ InitState
    /\ message = <<>>
    /\ shared_secret = None

\* An earlier store_shared_secret wrote the previous entry for B before the
\* two threads start.
NextThreads ==
    \/ \E ttl \in {-1, 0, 1} :
          /\ \A t \in Threads : pc[t] = "idle"
          /\ "B" \notin DOMAIN shared_secrets
          /\ StoreSharedSecret("B", Some(OldSecret), ttl)
    \/ \E ttl \in {1, DefaultTtl} : PutExpiry(ttl)
    \/ PutBuild
    \/ PutAssign
    \/ GetLookup
    \/ GetRead
    \/ GetCheck
    \/ GetDelete
    \/ TickThreads

SpecThreads == InitThreads /\ [][NextThreads]_vars

\* C12: when store_shared_secret(B, fresh) and a get_shared_secret(B) that
\* finds the previous entry expired run concurrently, the fresh secret is in
\* the store once both calls have finished.
C12_NoLostUpdate ==
    (/\ pc["put"] = "done"
     /\ pc["get"] = "done"
     /\ frame["get"].expired)
        => /\ "B" \in DOMAIN shared_secrets
           /\ shared_secrets["B"].secret = B64Encode(FreshSecret)

\* ------------------------------------------------------------ the send path
\* The send path to a peer: the secret is looked up with get_shared_secret
\* and handed, whatever it is, to create_secure_message of node A.
SendToPeer(peer, m, sign, iv, k) ==
    LET got == get_shared_secret(shared_secrets, peer, now)
    IN  \E t3 \in now..(now + 1) : \E t1, t2 \in now..t3 :
            /\ t3 <= MaxTime
            /\ t1 <= t2
            /\ secure_message = None
            /\ shared_secrets' = got.store
            /\ fetched' = Some([peer |-> peer,
                                at |-> now,
                                before |-> IF peer \in DOMAIN shared_secrets
                                           THEN Some(shared_secrets[peer]) ELSE None,
                                ret |-> got.ret])
            /\ message' = m
            /\ shared_secret' = got.ret
            /\ earlier_message' = secure_message
            /\ secure_message' =
                  Some([by |-> public_key["A"],
                        plaintext |-> m,
                        secret |-> got.ret,
                        sign |-> sign,
                        out |-> create_secure_message(private_key["A"], node_id["A"],
                                                      m, got.ret, sign, iv, t1, t2,
                                                      t3, k)])
            /\ now' = t3
            /\ UNCHANGED <<callVars, managerVars, cipherVars, signVars, derived, processed,
                           stored>>

InitSend ==
    /\ InitState
    /\ message = <<>>
    /\ shared_secret = None

NextSend ==
    \/ secure_message = None /\ GenerateKeyPair("A", 1)
    \/ \E ttl \in {0, 1} :
          secure_message = None /\ StoreSharedSecret("B", Some(SecretOf(1)), ttl)
    \/ secure_message = None /\ TickStore
    \/ \E m \in ChannelMessages, sign \in BOOLEAN :
          SendToPeer("B", m, sign, Repeat(0, BlockSize), 1)

SpecSend == InitSend /\ [][NextSend]_vars

\* C6: when the store has no entry for the peer, or the entry has expired,
\* the send path ends in an error and produces no secure message.
C6_NoSecretNoMessage ==
    (/\ secure_message # None
     /\ \/ fetched[1].before = None
        \/ fetched[1].at > ExpiresAt(fetched[1].before[1]))
        => ~secure_message[1].out.ok

\* C6 witness: a send found the peer's entry expired and ended in an error.
C6_Witness ==
    /\ secure_message # None
    /\ fetched[1].before # None
    /\ fetched[1].at > ExpiresAt(fetched[1].before[1])
    /\ ~secure_message[1].out.ok

\* An active secret lets the send path produce a message.
C6_WitnessSent ==
    /\ secure_message # None
    /\ fetched[1].before # None
    /\ secure_message[1].out.ok


\* --------------------------------------------------------------- get_status
\* get_status() of the KeyManager; `store` and `at` keep the store and the
\* clock's reading the call saw. save_public_key is never called here, so
\* node_keys is the empty dict of __init__ and key_storage_path its default.
GetStatus ==
    /\ status' = Some([out |-> get_status("keys", shared_secrets, <<>>),
                       store |-> shared_secrets,
                       at |-> now])
    /\ UNCHANGED <<managerVars, storeVars, message, shared_secret, cipherVars,
                   signVars, channelVars, putGetVars, public_key_pem, pc,
                   frame>>

StatusTtls == {0, 1, DefaultTtl}

NextStatus ==
    \/ \E peer \in Peers, ttl \in StatusTtls :
          StoreSharedSecret(peer, Some(SecretOf(1)), ttl)
    \/ \E peer \in Peers : GetSharedSecret(peer)
    \/ TickStore
    \/ GetStatus

SpecStatus == InitStore /\ [][NextStatus]_vars

\* C24: the active_shared_secrets count that get_status returns is the number
\* of peers for which get_shared_secret, called at that moment, would return
\* a secret.
C24_StatusCountsActive ==
    status # None
        => status[1].out.active_shared_secrets =
              Cardinality({p \in Peers :
                  get_shared_secret(status[1].store, p, status[1].at).ret # None})

====
